---- MODULE Spec2Model ----
(***************************************************************************)
(* The Dataflow runner of the Go SDK: dataflow.Execute and the process-    *)
(* wide state it reads and writes (the flags, the naming counter `unique`, *)
(* the hook registry and the exported pipeline options).                   *)
(*                                                                         *)
(* Several invocations of Execute may run concurrently in one process; an  *)
(* invocation is a sequence of steps, one action per statement group of    *)
(* the source.  A blocking collaborator call is two steps, the call and    *)
(* its return, so that other invocations and a cancellation of the         *)
(* caller's context can happen while it is in flight.                      *)
(***************************************************************************)
EXTENDS Integers, Sequences, FiniteSets, TLC

(* ------------------------------ bounds --------------------------------- *)

\* Invocations of Execute started over the lifetime of the process.
MaxRuns == 3

\* Invocations of the capture function over the lifetime of the process.
MaxCaptures == 2

\* Width in bits of the model's `unique` counter.  The source's counter is an
\* int32; the model keeps two's-complement wrap-around at a width TLC can
\* exhaust.
CounterBits == 1

\* The invocations that can be in flight at once: every interaction between
\* invocations is one between two of them.
Procs == {1, 2}

\* The values of the wall clock.
Times == {0, 1}

(* --------------------------- input domains ----------------------------- *)

Projects == {"", "proj"}

StagingLocations == {"", "gs://b/stage"}

Images == {"", "gcr.io/beam/go"}

LabelStrings == {"", "{\"team\":\"beam\"}", "{\"team\":"}

\* Further values of *labels: JSON objects, null, and an object with a value
\* that is not a string.
LabelInputs ==
  LabelStrings \cup {"{}", "null", "{\"n\":1}", "{\"a\":\"1\",\"b\":\"2\"}"}

ProfilingDests == {"", "gs://b/prof"}

\* Staging locations that pass the check of line 84.
OptionStagings == {"gs://b/stage", "gs://other"}

MinCPUPlatforms == {"", "v2"}

TempLocations == {"", "gs://b/temp"}

\* What jobopts.GetExperiments can return.
ExperimentLists == {<< >>, <<"shuffle_mode=service">>, <<"a", "b">>}

\* Values of *cpuProfiling of a program that sets the flag between its runs.
HookDests == {"", "gs://b/prof", "gs://b/profiles/run42"}

\* Values of *cpuProfiling for the capture hook: an object, a bucket alone,
\* and a string that is no GCS location.
SinkDests == {"gs://b/profiles/run42", "gs://b", "nowhere"}

\* The stream identifiers the capture function is invoked with.
CaptureSpecs == {"trace-1", "heap"}

\* What jobopts.GetContainerImage can return: the image of the environment,
\* never the empty string.
ResolvedImages == {"img-a", "img-b"}

\* The value a load of *image yields when it overlaps a store of a different
\* string: pointer and length of two different strings.
TornImage == "<torn>"

(* ------------------------------ errors --------------------------------- *)

NilErr == [isNil |-> TRUE, msg |-> ""]

NewError(m) == [isNil |-> FALSE, msg |-> m]

\* fmt.Errorf(prefix + "%v", err)
Errorf(prefix, e) == NewError(prefix \o e.msg)

ErrBuild == NewError("build: cycle in graph")

ErrMarshal == NewError("marshal: bad coder")

ErrTranslate == NewError("translate: unsupported transform")

ErrSubmit == NewError("googleapi: 403 forbidden")

ErrSerialize == NewError("hooks: cannot serialize")

ErrCanceled == NewError("context canceled")

ErrJSON == NewError("unexpected end of JSON input")

ErrParseObject == NewError("object not a gs:// path")

ErrNewClient == NewError("could not find default credentials")

ErrWriteObject == NewError("googleapi: Error 403: Forbidden")

ErrJSONType == NewError("json: cannot unmarshal number into Go value of type string")

(* ------------------------------ state ---------------------------------- *)

VARIABLES
  gcpProject,       \* *gcpopts.Project
  stagingLocation,  \* *stagingLocation
  image,            \* *image, stored by Execute
  labels,           \* *labels
  cpuProfiling,     \* *cpuProfiling
  dryRun,           \* *dryRun
  minCPUPlatform,   \* *minCPUPlatform
  tempLocation,     \* *tempLocation
  experiments,      \* what jobopts.GetExperiments returns
  unique,           \* the naming counter
  hookDest,         \* the destination gcs_profile_writer is enabled with, or ""
  exported,         \* the hooks entry of the exported pipeline options
  goroutines,       \* how many goroutines of the program call Execute
  now,              \* the wall clock, in nanoseconds
  pc,               \* per goroutine: the statement its invocation is at
  pipeline,         \* the pipeline handle p of the invocation
  cancelled,        \* whether the invocation's ctx has been cancelled
  edges,            \* the local edges
  opts,             \* the local opts
  imageURL,         \* ContainerImageURL of the graphx.Options of line 144
  model,            \* the local model
  id,               \* the local id
  modelURL,         \* the local modelURL
  workerURL,        \* the local workerURL
  handle,           \* the first result of dataflowlib.Execute (assigned to _)
  ret,              \* the error Execute returned
  calls,            \* the calls the invocation has made, in order
  out,              \* what the invocation has logged, in order
  runs,             \* invocations started so far
  plans,            \* every staging plan so far, in the order of the increments
  hook,             \* the capture function gcsRecorderHook returned, or NoHook
  panicked,         \* whether the process has panicked
  captures,         \* invocations of the capture function so far
  lastCapture       \* the last invocation of the capture function

flagVars == <<gcpProject, stagingLocation, labels, cpuProfiling, dryRun, minCPUPlatform,
              tempLocation, experiments>>

sharedVars == <<image, unique, hookDest, exported>>

localVars == <<pipeline, edges, opts, imageURL, model, id, modelURL, workerURL, handle>>

envVars == <<goroutines, now>>

sinkVars == <<hook, panicked, captures, lastCapture>>

vars == <<flagVars, sharedVars, localVars, envVars, sinkVars, pc, cancelled, ret, calls,
          out, runs, plans>>

(* ----------------------- pure parts of Execute ------------------------- *)

\* Lines 81-87 without the check of the staging location.
RequiredFlagsProjectOnly(proj, staging) ==
  IF proj = ""
    THEN NewError("no Google Cloud project specified. Use --project=<project>")
    ELSE NilErr

\* Lines 81-87 without the check of the project.
RequiredFlagsStagingOnly(proj, staging) ==
  IF staging = ""
    THEN NewError("no GCS staging location specified. Use --staging_location=gs://<bucket>/<path>")
    ELSE NilErr

\* Lines 81-87: the error of the two required-flag checks, NilErr when both pass.
RequiredFlags(proj, staging) ==
  IF proj = ""
    THEN NewError("no Google Cloud project specified. Use --project=<project>")
    ELSE IF staging = ""
      THEN NewError("no GCS staging location specified. Use --staging_location=gs://<bucket>/<path>")
      ELSE NilErr

\* json.Unmarshal([]byte(s), &jobLabels): the map as a set of <<key, value>>.
JSONUnmarshal(s) ==
  CASE s = "{\"team\":\"beam\"}" -> [err |-> NilErr, val |-> {<<"team", "beam">>}]
    [] s = "{\"a\":\"1\",\"b\":\"2\"}" -> [err |-> NilErr, val |-> {<<"a", "1">>, <<"b", "2">>}]
    [] s = "{}" -> [err |-> NilErr, val |-> {}]
    [] s = "null" -> [err |-> NilErr, val |-> {}]
    [] s = "{\"n\":1}" -> [err |-> ErrJSONType, val |-> {}]
    [] OTHER -> [err |-> ErrJSON, val |-> {}]

\* Lines 91-96 with the error of json.Unmarshal not tested.
ReadLabelsLenient(s) ==
  IF s = ""
    THEN [err |-> NilErr, val |-> {}]
    ELSE [err |-> NilErr, val |-> JSONUnmarshal(s).val]

\* Lines 91-96: jobLabels and the error of reading the labels flag.
ReadLabels(s) ==
  IF s = ""
    THEN [err |-> NilErr, val |-> {}]
    ELSE LET r == JSONUnmarshal(s)
         IN  IF r.err.isNil
               THEN r
               ELSE [err |-> Errorf("error reading --label flag as JSON: ", r.err), val |-> {}]

\* gcsx.Join(base, elem)
GcsxJoin(base, elem) == base \o "/" \o elem

\* Lines 114-117 with the entry put first.
ExperimentsPrepended(base, v) ==
  IF v # "" THEN <<"min_cpu_platform=" \o v>> \o base ELSE base

\* Lines 114-117: the experiments, of what jobopts.GetExperiments returned
\* and *minCPUPlatform.
ExperimentsOf(base, v) ==
  IF v # "" THEN Append(base, "min_cpu_platform=" \o v) ELSE base

\* Lines 130-136 with the flag overwritten.
TempLocationDefaulted(temp, staging) == GcsxJoin(staging, "tmp")

\* Lines 130-136: opts.TempLocation, of *tempLocation and *stagingLocation.
TempLocationOf(temp, staging) ==
  IF temp = "" THEN GcsxJoin(staging, "tmp") ELSE temp

\* Lines 119-136: the job options; the flags of the fields left out are unset.
JobOptions(proj, staging, jobLabels, options, exps, temp) ==
  [ Name         |-> "job",
    Experiments  |-> exps,
    Options      |-> options,
    Project      |-> proj,
    Region       |-> "us-central1",
    Labels       |-> jobLabels,
    TempLocation |-> TempLocationOf(temp, staging) ]

\* The zero value of the local opts.
NoOpts ==
  [ Name |-> "", Experiments |-> << >>, Options |-> "", Project |-> "", Region |-> "",
    Labels |-> {}, TempLocation |-> "" ]

\* p.Build(): the edges of pipeline h.
Build(h) == "edges(" \o h \o ")"

\* graphx.Marshal(edges, &graphx.Options{ContainerImageURL: img})
Marshal(e, img) == [edges |-> e, image |-> img]

NoModel == Marshal("", "")

\* proto.MarshalTextString(model)
MarshalTextString(m) == "pipeline{" \o m.edges \o " on " \o m.image \o "}"

\* The job description dataflowlib.Translate makes of its four arguments.
Translate(m, o, w, u) == [model |-> m, options |-> o, workerURL |-> w, modelURL |-> u]

NoJob == Translate(NoModel, NoOpts, "", "")

\* The job handle dataflowlib.Execute returns on success.
JobHandle(m, o, w, u) == [job |-> Translate(m, o, w, u), state |-> "submitted"]

NoHandle == [job |-> NoJob, state |-> "none"]

\* The two's-complement value of n at the counter's width.
Wrap(n) == ((n + 2 ^ (CounterBits - 1)) % (2 ^ CounterBits)) - 2 ^ (CounterBits - 1)

\* An increment that is lost.
AddInt32Stale(v, delta) == v

\* atomic.AddInt32(&unique, delta): the new value, which is also returned.
AddInt32(v, delta) == Wrap(v + delta)

\* fmt.Sprintf("model-%v-%v", id, t) and fmt.Sprintf("worker-%v-%v", id, t)
ArtifactName(kind, i, t) == kind \o "-" \o ToString(i) \o "-" \o ToString(t)

\* Line 150: modelURL, for id i at clock value t.
ModelURL(staging, i, t) == GcsxJoin(staging, ArtifactName("model", i, t))

\* Line 151 with an id of its own, not the one line 149 obtained.
WorkerURLOwnId(staging, i, t) == GcsxJoin(staging, ArtifactName("worker", i + 1, t))

\* Line 151: workerURL, for id i at clock value t.
WorkerURL(staging, i, t) == GcsxJoin(staging, ArtifactName("worker", i, t))

\* Line 98 with the test lost.
EnablesAlways(dest) == TRUE

\* Line 98: whether the capture hook is enabled.
Enables(dest) == dest # ""

\* Line 153 with the test of the dry-run flag lost.
OnlyPrintNever(dry) == FALSE

\* Line 153: whether the job is only printed.
OnlyPrint(dry) == dry

\* Lines 154-156 without the line that logs the model.
DryRunLogsNoModel(m) == << <<"log.Info", "Dry-run: not submitting job!">> >>

\* Lines 154-156: what a dry run logs before it translates model m.
DryRunLogs(m) ==
  << <<"log.Info", "Dry-run: not submitting job!">>,
     <<"log.Info", MarshalTextString(m)>> >>

\* Line 157: the job of the call dataflowlib.Translate(model, opts, workerURL, modelURL).
TranslateCall(m, o, w, u) == Translate(m, o, w, u)

\* Line 161: what dataflowlib.PrintJob(ctx, job) writes.
PrintJob(j) == <<"dataflowlib.PrintJob", j>>

\* Line 166 with the error wrapped whether or not it is nil.
SubmitReturnWrapped(r) == Errorf("failed to submit job: ", r.err)

\* Line 166 with the error dropped.
SubmitReturnSwallowed(r) == NilErr

\* Line 166 with a non-nil error wrapped.
SubmitReturnContext(r) ==
  IF r.err.isNil THEN NilErr ELSE Errorf("failed to submit job: ", r.err)

\* Line 166: what Execute returns of the two results of dataflowlib.Execute.
SubmitReturn(r) == r.err

\* Line 146: the error returned when graphx.Marshal fails with e.
MarshalError(e) == Errorf("failed to generate model pipeline: ", e)

\* Every blocking call given the ctx.
PassesCtxAll(fn) == TRUE

\* Whether the source passes ctx to the call.
PassesCtx(fn) ==
  CASE fn = "jobopts.GetContainerImage" -> TRUE
    [] fn = "p.Build" -> FALSE
    [] fn = "graphx.Marshal" -> FALSE
    [] fn = "dataflowlib.Translate" -> FALSE
    [] fn = "dataflowlib.Execute" -> TRUE
    [] OTHER -> FALSE

\* The blocking collaborator calls of Execute.
Blocking ==
  { "jobopts.GetContainerImage", "p.Build", "graphx.Marshal",
    "dataflowlib.Translate", "dataflowlib.Execute" }

\* A call record: done is FALSE while the call is in flight, err is the error
\* it returned (NilErr for a call that returns none).
CallRec(fn, done, e) == [fn |-> fn, ctx |-> PassesCtx(fn), done |-> done, err |-> e]

\* The record of a call in flight.
Pending(fn) == CallRec(fn, FALSE, NilErr)

(* ------------------------- gcsRecorderHook ----------------------------- *)

\* gcsx.ParseObject(object): bucket, prefix and error.
ParseObject(object) ==
  CASE object = "gs://b/prof" -> [bucket |-> "b", prefix |-> "prof", err |-> NilErr]
    [] object = "gs://b/profiles/run42" ->
         [bucket |-> "b", prefix |-> "profiles/run42", err |-> NilErr]
    [] object = "gs://b" -> [bucket |-> "b", prefix |-> "", err |-> NilErr]
    [] OTHER -> [bucket |-> "", prefix |-> "", err |-> ErrParseObject]

\* path.Join(a, b), for elements that are clean: empty elements are ignored.
PathJoin(a, b) ==
  IF a = "" THEN b ELSE IF b = "" THEN a ELSE a \o "/" \o b

\* No capture function.
NoHook == [dest |-> "", bucket |-> "", prefix |-> ""]

\* Lines 169-173 with the error of gcsx.ParseObject not tested.
GcsRecorderHookLenient(hopts) ==
  LET r == ParseObject(hopts[1])
  IN  [panic |-> FALSE, fn |-> [dest |-> hopts[1], bucket |-> r.bucket, prefix |-> r.prefix]]

\* Lines 169-174: gcsRecorderHook(opts) panics, or returns the capture
\* function, a closure over bucket and prefix (dest: what it was made of).
GcsRecorderHook(hopts) ==
  LET r == ParseObject(hopts[1])
  IN  IF ~r.err.isNil
        THEN [panic |-> TRUE, fn |-> NoHook]
        ELSE [panic |-> FALSE,
              fn |-> [dest |-> hopts[1], bucket |-> r.bucket, prefix |-> r.prefix]]

\* Lines 175-181 with the error of gcsx.NewClient not tested.
CaptureFnWritesAnyway(h, spec, clientErr, writeErr) ==
  [ client |-> clientErr,
    writes |-> <<[bucket |-> h.bucket, object |-> PathJoin(h.prefix, spec)]>>,
    ret    |-> writeErr ]

\* Lines 175-181: the capture function h invoked with spec, when
\* gcsx.NewClient returns clientErr and gcsx.WriteObject would return
\* writeErr: the objects it writes and the error it returns.
CaptureFn(h, spec, clientErr, writeErr) ==
  IF ~clientErr.isNil
    THEN [ client |-> clientErr,
           writes |-> << >>,
           ret    |-> Errorf("couldn't establish GCS client: ", clientErr) ]
    ELSE [ client |-> clientErr,
           writes |-> <<[bucket |-> h.bucket, object |-> PathJoin(h.prefix, spec)]>>,
           ret    |-> writeErr ]

\* No invocation of the capture function; of an invocation, the function
\* invoked, its argument, what gcsx.NewClient returned, what gcsx.WriteObject
\* returns when called, the objects written and the error returned.
NoCapture ==
  [ hook |-> NoHook, spec |-> "", client |-> NilErr, wrote |-> NilErr, writes |-> << >>,
    ret |-> NilErr ]

(* ----------------------------- collaborators --------------------------- *)

\* The errors gcsx.NewClient can return.
NewClientResults == {NilErr, ErrNewClient}

\* The errors gcsx.WriteObject can return.
WriteObjectResults == {NilErr, ErrWriteObject}

\* The errors p.Build can return (nil: the edges are built).
BuildResults == {NilErr, ErrBuild}

\* The errors graphx.Marshal can return.
MarshalResults == {NilErr, ErrMarshal}

\* The errors dataflowlib.Translate can return.
TranslateResults == {NilErr, ErrTranslate}

\* The errors serializing the hooks can end with.
SerializeResults == {NilErr, ErrSerialize}

\* The errors dataflowlib.Execute can return.
SubmitResults == {NilErr, ErrSubmit}

\* The errors the call of fn can return to an invocation whose ctx is, or is
\* not, cancelled: a collaborator that was given the ctx aborts once it is
\* cancelled, one that was not runs to completion.
ResultsOf(fn, results, ctxCancelled) ==
  IF PassesCtx(fn) /\ ctxCancelled THEN {ErrCanceled} ELSE results

(* ------------------------------- steps --------------------------------- *)
(* An action is a maximal run of statements with at most one access to     *)
(* state another invocation can touch, up to the next blocking call.       *)

Goto(p, l) == pc' = [pc EXCEPT ![p] = l]

\* A return statement of Execute.
ReturnErr(p, e) ==
  /\ pc' = [pc EXCEPT ![p] = "done"]
  /\ ret' = [ret EXCEPT ![p] = e]

\* The invocation's calls become cs.
SetCalls(p, cs) == calls' = [calls EXCEPT ![p] = cs]

\* calls[p] with the call in flight returned with error e.
Returned(p, e) == [calls[p] EXCEPT ![Len(calls[p])] = [@ EXCEPT !.done = TRUE, !.err = e]]

\* calls[p] with the call in flight returned without error and fn called.
ThenCalls(p, fn) == Append(Returned(p, NilErr), Pending(fn))

\* The pcs at which a blocking call is in flight.
InFlight == {"C89", "C140", "C144", "C157", "C165"}

\* The values the load of *image at line 144 can yield: the stored value, or
\* a torn one when another invocation is about to store at line 89.
LoadImage(p) ==
  {image} \cup
    (IF \E q \in Procs \ {p} : pc[q] = "C89" /\ ResolvedImages \ {image} # {}
       THEN {TornImage}
       ELSE {})

\* The place in plans of the plan invocation p has begun and not completed.
OpenPlan(p) == CHOOSE k \in 1..Len(plans) : plans[k].by = p /\ plans[k].workerURL = ""

\* The pipeline goroutine p runs.
PipelineOf(p) == "pipeline" \o ToString(p)

\* The state after the package is initialised, but for the flags.
InitProcess ==
  /\ unique = 0
  /\ hookDest = ""
  /\ exported = ""
  /\ now \in Times
  /\ pc = [p \in Procs |-> "idle"]
  /\ pipeline = [p \in Procs |-> ""]
  /\ cancelled = [p \in Procs |-> FALSE]
  /\ edges = [p \in Procs |-> ""]
  /\ opts = [p \in Procs |-> NoOpts]
  /\ imageURL = [p \in Procs |-> ""]
  /\ model = [p \in Procs |-> NoModel]
  /\ id = [p \in Procs |-> 0]
  /\ modelURL = [p \in Procs |-> ""]
  /\ workerURL = [p \in Procs |-> ""]
  /\ handle = [p \in Procs |-> NoHandle]
  /\ ret = [p \in Procs |-> NilErr]
  /\ calls = [p \in Procs |-> << >>]
  /\ out = [p \in Procs |-> << >>]
  /\ runs = 0
  /\ plans = << >>
  /\ hook = NoHook
  /\ panicked = FALSE
  /\ captures = 0
  /\ lastCapture = NoCapture

\* A program that runs its pipelines one after the other, with any of the
\* flags Execute tests and the others at their defaults.
Init ==
  /\ InitProcess
  /\ goroutines = 1
  /\ gcpProject \in Projects
  /\ stagingLocation \in StagingLocations
  /\ image \in Images
  /\ labels \in LabelStrings
  /\ cpuProfiling \in ProfilingDests
  /\ dryRun \in BOOLEAN
  /\ minCPUPlatform = ""
  /\ tempLocation = ""
  /\ experiments = << >>

\* A program that runs pipelines from two goroutines, with the required flags
\* set.
InitConcurrent ==
  /\ InitProcess
  /\ goroutines = 2
  /\ gcpProject = "proj"
  /\ stagingLocation = "gs://b/stage"
  /\ image \in Images
  /\ labels = ""
  /\ cpuProfiling \in ProfilingDests
  /\ dryRun \in BOOLEAN
  /\ minCPUPlatform = ""
  /\ tempLocation = ""
  /\ experiments = << >>

\* A program that runs its pipelines one after the other, with the flags
\* Execute tests set so that it passes them, and any of the flags it copies
\* to the job options.
InitOptions ==
  /\ InitProcess
  /\ goroutines = 1
  /\ gcpProject = "proj"
  /\ stagingLocation \in OptionStagings
  /\ image \in Images
  /\ labels = ""
  /\ cpuProfiling = ""
  /\ dryRun \in BOOLEAN
  /\ minCPUPlatform \in MinCPUPlatforms
  /\ tempLocation \in TempLocations
  /\ experiments \in ExperimentLists

\* A program that runs its pipelines one after the other, with the required
\* flags set and any labels.
InitLabels ==
  /\ InitProcess
  /\ goroutines = 1
  /\ gcpProject = "proj"
  /\ stagingLocation = "gs://b/stage"
  /\ image \in Images
  /\ labels \in LabelInputs
  /\ cpuProfiling \in ProfilingDests
  /\ dryRun \in BOOLEAN
  /\ minCPUPlatform = ""
  /\ tempLocation = ""
  /\ experiments = << >>

\* A program that runs its pipelines one after the other and captures
\* profiles, with the required flags set and a profiling destination.
InitSink ==
  /\ InitProcess
  /\ goroutines = 1
  /\ gcpProject = "proj"
  /\ stagingLocation = "gs://b/stage"
  /\ image \in Images
  /\ labels = ""
  /\ cpuProfiling \in SinkDests
  /\ dryRun \in BOOLEAN
  /\ minCPUPlatform = ""
  /\ tempLocation = ""
  /\ experiments = << >>

\* A program that runs its pipelines one after the other, with any project,
\* labels and profiling destination.
InitHooks ==
  /\ InitProcess
  /\ goroutines = 1
  /\ gcpProject \in Projects
  /\ stagingLocation = "gs://b/stage"
  /\ image \in Images
  /\ labels \in LabelStrings
  /\ cpuProfiling \in HookDests
  /\ dryRun \in BOOLEAN
  /\ minCPUPlatform = ""
  /\ tempLocation = ""
  /\ experiments = << >>

\* Lines 91-96, reached with the calls cs made so far.
ParseLabels(p, cs) ==
  LET r == ReadLabels(labels)
  IN  /\ SetCalls(p, IF labels = "" THEN cs
                     ELSE Append(cs, CallRec("json.Unmarshal", TRUE, JSONUnmarshal(labels).err)))
      /\ IF r.err.isNil
           THEN Goto(p, "L98") /\ UNCHANGED ret
           ELSE ReturnErr(p, r.err)

\* The caller invokes Execute(ctx, pipeline): lines 81-88, and lines 91-96
\* when *image is set.
Start(p) ==
  /\ pc[p] = "idle"
  /\ p <= goroutines
  /\ runs < MaxRuns
  /\ runs' = runs + 1
  /\ pipeline' = [pipeline EXCEPT ![p] = PipelineOf(p)]
  /\ LET e == RequiredFlags(gcpProject, stagingLocation)
     IN  IF ~e.isNil
           THEN ReturnErr(p, e) /\ UNCHANGED calls
           ELSE IF image = ""
             THEN /\ Goto(p, "C89")
                  /\ SetCalls(p, <<Pending("jobopts.GetContainerImage")>>)
                  /\ UNCHANGED ret
             ELSE ParseLabels(p, << >>)
  /\ UNCHANGED <<flagVars, sinkVars, sharedVars, envVars, edges, opts, imageURL, model, id, modelURL,
                 workerURL, handle, cancelled, out, plans>>

\* Line 89: the call returns and its result is stored in *image; lines 91-96.
StoreImage(p) ==
  /\ pc[p] = "C89"
  /\ \E r \in ResolvedImages : image' = r
  /\ ParseLabels(p, Returned(p, NilErr))
  /\ UNCHANGED <<flagVars, sinkVars, unique, hookDest, exported, localVars, envVars, cancelled, out,
                 runs, plans>>

\* Lines 98-100.
EnableHook(p) ==
  /\ pc[p] = "L98"
  /\ IF Enables(cpuProfiling)
       THEN /\ hookDest' = cpuProfiling
            /\ SetCalls(p, Append(calls[p], CallRec("perf.EnableProfCaptureHook", TRUE, NilErr)))
       ELSE UNCHANGED <<hookDest, calls>>
  /\ Goto(p, "L112")
  /\ UNCHANGED <<flagVars, sinkVars, image, unique, exported, localVars, envVars, cancelled, ret, out,
                 runs, plans>>

\* Line 112: the call is a statement; nothing of its outcome is looked at.
SerializeHooks(p) ==
  /\ pc[p] = "L112"
  /\ \E e \in SerializeResults :
       /\ exported' = IF e.isNil THEN hookDest ELSE exported
       /\ SetCalls(p, Append(calls[p], CallRec("hooks.SerializeHooksToOptions", TRUE, e)))
  /\ Goto(p, "L114")
  /\ UNCHANGED <<flagVars, sinkVars, image, unique, hookDest, localVars, envVars, cancelled, ret, out,
                 runs, plans>>

\* Lines 114-136, and the call of line 140.
BuildOptions(p) ==
  /\ pc[p] = "L114"
  /\ opts' = [opts EXCEPT ![p] =
                JobOptions(gcpProject, stagingLocation, ReadLabels(labels).val, exported,
                           ExperimentsOf(experiments, minCPUPlatform), tempLocation)]
  /\ SetCalls(p, Append(calls[p], Pending("p.Build")))
  /\ Goto(p, "C140")
  /\ UNCHANGED <<flagVars, sinkVars, sharedVars, envVars, pipeline, edges, imageURL, model, id,
                 modelURL, workerURL, handle, cancelled, ret, out, runs, plans>>

\* Lines 140-144: Build returns; *image is loaded and Marshal is called.
BuildReturns(p) ==
  /\ pc[p] = "C140"
  /\ \E e \in ResultsOf("p.Build", BuildResults, cancelled[p]) :
       IF e.isNil
         THEN /\ edges' = [edges EXCEPT ![p] = Build(pipeline[p])]
              /\ \E img \in LoadImage(p) : imageURL' = [imageURL EXCEPT ![p] = img]
              /\ SetCalls(p, ThenCalls(p, "graphx.Marshal"))
              /\ Goto(p, "C144")
              /\ UNCHANGED ret
         ELSE /\ SetCalls(p, Returned(p, e))
              /\ ReturnErr(p, e)
              /\ UNCHANGED <<edges, imageURL>>
  /\ UNCHANGED <<flagVars, sinkVars, sharedVars, envVars, pipeline, opts, model, id, modelURL,
                 workerURL, handle, cancelled, out, runs, plans>>

\* Lines 144-150: Marshal returns; the counter is incremented and modelURL
\* is named, which begins the staging plan.
MarshalReturns(p) ==
  /\ pc[p] = "C144"
  /\ \E e \in ResultsOf("graphx.Marshal", MarshalResults, cancelled[p]) :
       IF e.isNil
         THEN /\ model' = [model EXCEPT ![p] = Marshal(edges[p], imageURL[p])]
              /\ unique' = AddInt32(unique, 1)
              /\ id' = [id EXCEPT ![p] = unique']
              /\ modelURL' = [modelURL EXCEPT ![p] = ModelURL(stagingLocation, unique', now)]
              /\ SetCalls(p, Append(Returned(p, NilErr),
                                    CallRec("atomic.AddInt32", TRUE, NilErr)))
              /\ plans' = Append(plans, [by |-> p, id |-> id'[p], modelURL |-> modelURL'[p],
                                         workerURL |-> ""])
              /\ Goto(p, "L151")
              /\ UNCHANGED ret
         ELSE /\ SetCalls(p, Returned(p, e))
              /\ ReturnErr(p, MarshalError(e))
              /\ UNCHANGED <<model, unique, id, modelURL, plans>>
  /\ UNCHANGED <<flagVars, sinkVars, image, hookDest, exported, envVars, pipeline, edges, opts,
                 imageURL, workerURL, handle, cancelled, out, runs>>

\* Lines 151-165: workerURL is named, which completes the staging plan; in a
\* dry run the two log lines are written and Translate is called, otherwise
\* dataflowlib.Execute is called.
NameWorker(p) ==
  /\ pc[p] = "L151"
  /\ workerURL' = [workerURL EXCEPT ![p] = WorkerURL(stagingLocation, id[p], now)]
  /\ plans' = [plans EXCEPT ![OpenPlan(p)].workerURL = workerURL'[p]]
  /\ IF OnlyPrint(dryRun)
       THEN /\ out' = [out EXCEPT ![p] = @ \o DryRunLogs(model[p])]
            /\ SetCalls(p, Append(calls[p], Pending("dataflowlib.Translate")))
            /\ Goto(p, "C157")
       ELSE /\ SetCalls(p, Append(calls[p], Pending("dataflowlib.Execute")))
            /\ Goto(p, "C165")
            /\ UNCHANGED out
  /\ UNCHANGED <<flagVars, sinkVars, sharedVars, envVars, pipeline, edges, opts, imageURL, model, id,
                 modelURL, handle, cancelled, ret, runs>>

\* Lines 157-162: Translate returns.
TranslateReturns(p) ==
  /\ pc[p] = "C157"
  /\ \E e \in ResultsOf("dataflowlib.Translate", TranslateResults, cancelled[p]) :
       /\ SetCalls(p, Returned(p, e))
       /\ ReturnErr(p, e)
       /\ IF e.isNil
            THEN out' = [out EXCEPT ![p] =
                   Append(@, PrintJob(TranslateCall(model[p], opts[p], workerURL[p],
                                                    modelURL[p])))]
            ELSE UNCHANGED out
  /\ UNCHANGED <<flagVars, sinkVars, sharedVars, localVars, envVars, cancelled, runs, plans>>

\* Lines 165-166: dataflowlib.Execute returns.
ExecuteReturns(p) ==
  /\ pc[p] = "C165"
  /\ \E e \in ResultsOf("dataflowlib.Execute", SubmitResults, cancelled[p]) :
       LET r == [ handle |-> IF e.isNil
                               THEN JobHandle(model[p], opts[p], workerURL[p], modelURL[p])
                               ELSE NoHandle,
                  err    |-> e ]
       IN  /\ SetCalls(p, Returned(p, e))
           /\ handle' = [handle EXCEPT ![p] = r.handle]
           /\ ReturnErr(p, SubmitReturn(r))
  /\ UNCHANGED <<flagVars, sinkVars, sharedVars, envVars, pipeline, edges, opts, imageURL, model, id,
                 modelURL, workerURL, cancelled, out, runs, plans>>

\* The caller cancels the ctx of an invocation that is inside a blocking call.
Cancel(p) ==
  /\ pc[p] \in InFlight
  /\ ~cancelled[p]
  /\ cancelled' = [cancelled EXCEPT ![p] = TRUE]
  /\ UNCHANGED <<flagVars, sinkVars, sharedVars, localVars, envVars, pc, ret, calls, out, runs, plans>>

\* The wall clock changes: it advances, or it is set.
ClockStep ==
  /\ now' \in Times \ {now}
  /\ UNCHANGED <<flagVars, sinkVars, sharedVars, localVars, goroutines, pc, cancelled, ret, calls,
                 out, runs, plans>>

\* The caller takes the result; the goroutine is free for the next invocation.
Collect(p) ==
  /\ pc[p] = "done"
  /\ Goto(p, "idle")
  /\ pipeline' = [pipeline EXCEPT ![p] = ""]
  /\ cancelled' = [cancelled EXCEPT ![p] = FALSE]
  /\ edges' = [edges EXCEPT ![p] = ""]
  /\ opts' = [opts EXCEPT ![p] = NoOpts]
  /\ imageURL' = [imageURL EXCEPT ![p] = ""]
  /\ model' = [model EXCEPT ![p] = NoModel]
  /\ id' = [id EXCEPT ![p] = 0]
  /\ modelURL' = [modelURL EXCEPT ![p] = ""]
  /\ workerURL' = [workerURL EXCEPT ![p] = ""]
  /\ handle' = [handle EXCEPT ![p] = NoHandle]
  /\ ret' = [ret EXCEPT ![p] = NilErr]
  /\ calls' = [calls EXCEPT ![p] = << >>]
  /\ out' = [out EXCEPT ![p] = << >>]
  /\ UNCHANGED <<flagVars, sinkVars, sharedVars, envVars, runs, plans>>

\* The hook framework makes the capture function of the enabled hook:
\* gcsRecorderHook, registered at line 71, is called with the destination
\* the hook was enabled with. A panic ends the process.
MakeHook ==
  /\ ~panicked
  /\ hookDest # ""
  /\ hook.dest # hookDest
  /\ LET r == GcsRecorderHook(<<hookDest>>)
     IN  /\ panicked' = r.panic
         /\ hook' = r.fn
  /\ UNCHANGED <<flagVars, sharedVars, localVars, envVars, captures, lastCapture, pc,
                 cancelled, ret, calls, out, runs, plans>>

\* A producer invokes the capture function with stream identifier sp.
Capture(sp) ==
  /\ ~panicked
  /\ hook # NoHook
  /\ captures < MaxCaptures
  /\ captures' = captures + 1
  /\ \E ce \in NewClientResults, we \in WriteObjectResults :
       LET r == CaptureFn(hook, sp, ce, we)
       IN  lastCapture' = [hook |-> hook, spec |-> sp, client |-> r.client, wrote |-> we,
                           writes |-> r.writes, ret |-> r.ret]
  /\ UNCHANGED <<flagVars, sharedVars, localVars, envVars, hook, panicked, pc, cancelled,
                 ret, calls, out, runs, plans>>

\* The program sets the profiling flag between two of its runs.
SetProfiling ==
  /\ \A p \in Procs : pc[p] = "idle"
  /\ runs > 0
  /\ runs < MaxRuns
  /\ cpuProfiling' \in HookDests \ {cpuProfiling}
  /\ UNCHANGED <<gcpProject, stagingLocation, labels, dryRun, minCPUPlatform, tempLocation,
                 experiments, sharedVars, localVars, envVars, sinkVars, pc, cancelled, ret,
                 calls, out, runs, plans>>

\* A step of an invocation that is under way: a statement group of Execute,
\* or the return of the call it is in.
Proceed(p) ==
  \/ StoreImage(p)
  \/ EnableHook(p)
  \/ SerializeHooks(p)
  \/ BuildOptions(p)
  \/ BuildReturns(p)
  \/ MarshalReturns(p)
  \/ NameWorker(p)
  \/ TranslateReturns(p)
  \/ ExecuteReturns(p)

\* A step of an invocation, or of its caller.
Step(p) ==
  \/ Start(p)
  \/ Proceed(p)
  \/ Collect(p)

Next ==
  \/ \E p \in Procs : Step(p)
  \/ \E p \in Procs : Cancel(p)
  \/ ClockStep

Spec == Init /\ [][Next]_vars

\* The steps of the program alone: its environment neither cancels a context
\* nor changes the clock.
NextQuiet == \E p \in Procs : Step(p)

SpecConcurrent == InitConcurrent /\ [][NextQuiet]_vars

SpecOptions == InitOptions /\ [][NextQuiet]_vars

SpecLabels == InitLabels /\ [][NextQuiet]_vars

\* The steps of the program, of the hook framework and of the producers of
\* profiles, while the process lives.
NextSink ==
  \/ \E p \in Procs : ~panicked /\ Step(p)
  \/ MakeHook
  \/ \E sp \in CaptureSpecs : Capture(sp)

SpecSink == InitSink /\ [][NextSink]_vars

\* The steps of a program that sets the profiling flag between its runs.
NextHooks ==
  \/ \E p \in Procs : Step(p)
  \/ SetProfiling

SpecHooks == InitHooks /\ [][NextHooks]_vars

\* The steps of the program and the cancellations by its callers, at a clock
\* that stands still.
NextCancel ==
  \/ \E p \in Procs : Step(p)
  \/ \E p \in Procs : Cancel(p)

\* Goroutines that keep running and collaborators that return: an invocation
\* that can take a step eventually takes one.
SpecFair == Init /\ [][NextCancel]_vars /\ \A p \in Procs : WF_vars(Proceed(p))

(* ------------------------------ properties ----------------------------- *)

\* The places in calls[p] of the calls of fn.
CallsOf(p, fn) == {i \in 1..Len(calls[p]) : calls[p][i].fn = fn}

Called(p, fn) == CallsOf(p, fn) # {}

\* The call returned an error.
Failed(c) == c.done /\ ~c.err.isNil

\* The call returned without error.
Succeeded(c) == c.done /\ c.err.isNil

\* Every call of fn the invocation made returned without error, and there is one.
AllSucceeded(p, fn) ==
  /\ Called(p, fn)
  /\ \A i \in CallsOf(p, fn) : Succeeded(calls[p][i])

\* The last thing the invocation wrote.
LastOut(p) == out[p][Len(out[p])]

\* C1: an invocation with the dry-run flag set never calls
\* dataflowlib.Execute, whatever the other collaborators return; and when
\* p.Build, graphx.Marshal and dataflowlib.Translate have succeeded it ends
\* without error, the last thing it wrote being the job translated from the
\* model, the options and the two names of this same invocation (the preview
\* is what dataflowlib.PrintJob writes: Execute itself returns only an error).
C1_DryRunPreviews ==
  \A p \in Procs :
    dryRun =>
      /\ ~Called(p, "dataflowlib.Execute")
      /\ pc[p] # "C165"
      /\ handle[p] = NoHandle
      /\ ( /\ pc[p] = "done"
           /\ AllSucceeded(p, "p.Build")
           /\ AllSucceeded(p, "graphx.Marshal")
           /\ AllSucceeded(p, "dataflowlib.Translate") )
         => /\ ret[p] = NilErr
            /\ out[p] # << >>
            /\ LastOut(p)[1] = "dataflowlib.PrintJob"
            /\ LastOut(p)[2].model = model[p]
            /\ LastOut(p)[2].model.edges = Build(pipeline[p])
            /\ LastOut(p)[2].options = opts[p]
            /\ LastOut(p)[2].workerURL = workerURL[p]
            /\ LastOut(p)[2].modelURL = modelURL[p]

\* A dry run has ended after a successful translation.
C1_Witness ==
  \E p \in Procs :
    /\ dryRun
    /\ pc[p] = "done"
    /\ AllSucceeded(p, "dataflowlib.Translate")
    /\ ret[p] = NilErr

\* What the caller of Execute would hold had Execute returned the job handle.
HandleResult(p) == [handle |-> handle[p], err |-> NilErr]

\* What the caller of Execute holds: the error, the only result of Execute.
CallerResult(p) == [err |-> ret[p]]

\* C2 as the specification states it: when dataflowlib.Execute succeeds in
\* an invocation without the dry-run flag, the caller of Execute gets the job
\* handle it returned, unmodified.
C2_ReturnsJobHandle ==
  \A p \in Procs :
    (pc[p] = "done" /\ ~dryRun /\ AllSucceeded(p, "dataflowlib.Execute"))
      => CallerResult(p) = HandleResult(p)

\* C2, amended: when dataflowlib.Execute succeeds in an invocation without
\* the dry-run flag, Execute returns the nil error and nothing else; the job
\* handle has been received and is not part of what the caller gets.
C2_ReturnsNilOnly ==
  \A p \in Procs :
    (pc[p] = "done" /\ ~dryRun /\ AllSucceeded(p, "dataflowlib.Execute"))
      => /\ ret[p] = NilErr
         /\ handle[p] # NoHandle
         /\ CallerResult(p) = [err |-> NilErr]

\* A submission has succeeded and Execute has returned.
C2_Witness ==
  \E p \in Procs :
    /\ pc[p] = "done"
    /\ ~dryRun
    /\ AllSucceeded(p, "dataflowlib.Execute")
    /\ handle[p].state = "submitted"

\* The error of a missing project, and that of a missing staging location.
ErrNoProject == NewError("no Google Cloud project specified. Use --project=<project>")

ErrNoStaging ==
  NewError("no GCS staging location specified. Use --staging_location=gs://<bucket>/<path>")

\* C3: with the project or the staging location empty, an invocation ends
\* at once with the error of the missing flag, having called no collaborator
\* and written nothing; no image is resolved, no hook enabled or serialized,
\* nothing built, compiled, named, translated or submitted.
C3_MissingFlagFailsFirst ==
  \A p \in Procs :
    (pc[p] # "idle" /\ (gcpProject = "" \/ stagingLocation = ""))
      => /\ pc[p] = "done"
         /\ ret[p] = IF gcpProject = "" THEN ErrNoProject ELSE ErrNoStaging
         /\ calls[p] = << >>
         /\ out[p] = << >>
         /\ unique = 0
         /\ hookDest = ""
         /\ exported = ""
         /\ plans = << >>
         /\ handle[p] = NoHandle

\* An invocation has ended for the missing staging location alone.
C3_Witness ==
  \E p \in Procs :
    /\ pc[p] = "done"
    /\ gcpProject # ""
    /\ stagingLocation = ""
    /\ ret[p] = ErrNoStaging

\* The plans that are complete: both names have been made.
Complete == {k \in 1..Len(plans) : plans[k].workerURL # ""}

\* C4 as the specification states it: the staging plans of one process are
\* pairwise distinct, however many there are and however their invocations
\* interleave: no two have the same model name and no two the same worker
\* name.
C4_PlansPairwiseDistinct ==
  \A i, j \in Complete :
    i # j => /\ plans[i].modelURL # plans[j].modelURL
             /\ plans[i].workerURL # plans[j].workerURL

\* C4, amended: two staging plans whose increments of the counter are fewer
\* than 2^CounterBits increments apart have different ids, different model
\* names and different worker names, however their invocations interleave
\* and whatever the clock reads.
C4_PlansDistinctWithinPeriod ==
  \A i, j \in Complete :
    (i < j /\ j - i < 2 ^ CounterBits)
      => /\ plans[i].id # plans[j].id
         /\ plans[i].modelURL # plans[j].modelURL
         /\ plans[i].workerURL # plans[j].workerURL

\* Two invocations hold complete plans at once, made at the same clock
\* reading by consecutive increments.
C4_Witness ==
  \E i \in Complete :
    /\ i + 1 \in Complete
    /\ plans[i].by # plans[i + 1].by
    /\ \A p \in Procs : pc[p] \in {"C157", "C165"}

\* The step of the fixed order a call belongs to.
StepOf(fn) ==
  CASE fn = "jobopts.GetContainerImage" -> 1
    [] fn = "json.Unmarshal" -> 1
    [] fn = "perf.EnableProfCaptureHook" -> 2
    [] fn = "hooks.SerializeHooksToOptions" -> 3
    [] fn = "p.Build" -> 4
    [] fn = "graphx.Marshal" -> 4
    [] fn = "atomic.AddInt32" -> 5
    [] OTHER -> 6

\* C5 as the specification states it: the calls of an invocation follow the
\* order resolve options, enable the capture hook, serialize the hooks,
\* compile the model, obtain the staging plan, translate or submit; and no
\* call follows a call that failed.
C5_FixedOrderAbortOnFailure ==
  \A p \in Procs :
    \A i, j \in 1..Len(calls[p]) :
      i < j => /\ StepOf(calls[p][i].fn) <= StepOf(calls[p][j].fn)
               /\ ~Failed(calls[p][i])

\* C6: an invocation calls dataflowlib.Execute at most once, and when that
\* call returns an error Execute returns that very error value.
C6_SubmitOnceErrorUnchanged ==
  \A p \in Procs :
    /\ Cardinality(CallsOf(p, "dataflowlib.Execute")) <= 1
    /\ \A i \in CallsOf(p, "dataflowlib.Execute") :
         /\ i = Len(calls[p])
         /\ Failed(calls[p][i]) => (pc[p] = "done" /\ ret[p] = calls[p][i].err)

\* A submission has failed and Execute has returned.
C6_Witness ==
  \E p \in Procs :
    /\ pc[p] = "done"
    /\ \E i \in CallsOf(p, "dataflowlib.Execute") : calls[p][i].err = ErrSubmit
    /\ ~ret[p].isNil

\* C7 as the specification states it: when serializing the hooks fails, the
\* invocation ends with that failure as its error, and the failed call is its
\* last: nothing is built, compiled, named, translated or submitted after it.
C7_SerializeFailureAborts ==
  \A p \in Procs :
    \A i \in CallsOf(p, "hooks.SerializeHooksToOptions") :
      Failed(calls[p][i])
        => /\ pc[p] = "done"
           /\ ret[p] = calls[p][i].err
           /\ i = Len(calls[p])

\* C8 as the specification states it, for the worker image: no step of an
\* invocation writes a variable the invocations share other than the naming
\* counter, so *image is never written.
C8_OnlyCounterWritten == [][image' = image]_vars

\* C9 as the specification states it: every blocking call of an invocation
\* is given the caller's ctx.
C9_CtxToEveryBlockingCall ==
  \A p \in Procs :
    \A i \in 1..Len(calls[p]) :
      calls[p][i].fn \in Blocking => calls[p][i].ctx

\* C9, amended: of the blocking calls, the image resolution and the
\* submission are given the caller's ctx, and the graph build, the model
\* compilation and the translation are not; so a cancellation aborts a
\* submission in flight, and never a build, a compilation or a translation,
\* which run to completion: a dry run never ends with the cancellation error.
C9_CtxToImageAndSubmitOnly ==
  \A p \in Procs :
    /\ \A i \in 1..Len(calls[p]) :
         LET c == calls[p][i]
         IN  c.fn \in Blocking =>
               /\ c.ctx <=> c.fn \in {"jobopts.GetContainerImage", "dataflowlib.Execute"}
               /\ (c.done /\ c.err = ErrCanceled) => c.fn = "dataflowlib.Execute"
               /\ (c.done /\ cancelled[p] /\ c.fn = "dataflowlib.Execute")
                    => c.err = ErrCanceled
    /\ (pc[p] = "done" /\ dryRun) => ret[p] # ErrCanceled

\* The ctx was cancelled during a blocking call of a dry run, which has
\* nevertheless ended with its preview.
C9_Witness ==
  \E p \in Procs :
    /\ cancelled[p]
    /\ dryRun
    /\ pc[p] = "done"
    /\ ret[p] = NilErr
    /\ AllSucceeded(p, "dataflowlib.Translate")

\* The two lines a dry run logs, and the line of its preview.
IsNotice(o) == o[1] = "log.Info" /\ o[2] = "Dry-run: not submitting job!"

IsModelText(p, o) == o[1] = "log.Info" /\ o[2] = MarshalTextString(model[p])

IsPreview(p, o) == o[1] = "dataflowlib.PrintJob" /\ o[2].model = model[p]

\* C10 as the specification states it: a dry run that ends with an error has
\* written nothing, and one that ends without error has written the text of
\* the compiled model and, after it, the translated preview.
C10_FailedDryRunSilent ==
  \A p \in Procs :
    (pc[p] = "done" /\ dryRun)
      => IF ret[p].isNil
           THEN \E i, j \in 1..Len(out[p]) :
                  i < j /\ IsModelText(p, out[p][i]) /\ IsPreview(p, out[p][j])
           ELSE out[p] = << >>

\* C10, amended: a dry run that fails before the translation (a missing
\* flag, the labels, the graph build, the model compilation) has written
\* nothing; one whose translation fails has written the dry-run notice and
\* the text of the compiled model, and nothing else; one that ends without
\* error has written the notice, the text of the compiled model and the
\* translated preview, in this order.
C10_DryRunOutput ==
  \A p \in Procs :
    (pc[p] = "done" /\ dryRun)
      => IF ret[p].isNil
           THEN /\ Len(out[p]) = 3
                /\ IsNotice(out[p][1])
                /\ IsModelText(p, out[p][2])
                /\ IsPreview(p, out[p][3])
           ELSE IF Called(p, "dataflowlib.Translate")
             THEN /\ Len(out[p]) = 2
                  /\ IsNotice(out[p][1])
                  /\ IsModelText(p, out[p][2])
             ELSE out[p] = << >>

\* A dry run has ended with the error of the translation.
C10_Witness ==
  \E p \in Procs :
    /\ pc[p] = "done"
    /\ dryRun
    /\ ret[p] = ErrTranslate
    /\ Len(out[p]) = 2

\* The three outcomes of an invocation that has returned, as its caller and
\* the reader of its output see them.
Previewed(p) ==
  /\ ret[p].isNil
  /\ out[p] # << >>
  /\ LastOut(p)[1] = "dataflowlib.PrintJob"

Submitted(p) == ret[p].isNil /\ handle[p].state = "submitted"

FailedOutcome(p) == ~ret[p].isNil

\* The outcomes the invocation is in.
OutcomesOf(p) ==
  {o \in {"Previewed", "Submitted", "Failed"} :
     \/ o = "Previewed" /\ Previewed(p)
     \/ o = "Submitted" /\ Submitted(p)
     \/ o = "Failed" /\ FailedOutcome(p)}

\* The outcome the claim gives an invocation that has returned.
ExpectedOutcome(p) ==
  IF dryRun /\ AllSucceeded(p, "dataflowlib.Translate")
    THEN "Previewed"
    ELSE IF ~dryRun /\ AllSucceeded(p, "dataflowlib.Execute")
      THEN "Submitted"
      ELSE "Failed"

\* C11: while its collaborators return, every invocation that has begun
\* returns, and one that has returned is in exactly one of the outcomes
\* Previewed, Submitted and Failed: Previewed when the dry-run flag is set
\* and the translation succeeded, Submitted when the flag is unset and
\* dataflowlib.Execute succeeded, Failed otherwise.
C11_TerminatesInOneOutcome ==
  /\ [](\A p \in Procs : pc[p] = "done" => OutcomesOf(p) = {ExpectedOutcome(p)})
  /\ \A p \in Procs : (pc[p] \notin {"idle", "done"}) ~> (pc[p] = "done")

\* An invocation has returned after a failed translation, and is Failed.
C11_Witness ==
  \E p \in Procs :
    /\ pc[p] = "done"
    /\ \E i \in CallsOf(p, "dataflowlib.Translate") : Failed(calls[p][i])
    /\ OutcomesOf(p) = {"Failed"}

PassedOn(p) == Called(p, "dataflowlib.Translate") \/ Called(p, "dataflowlib.Execute")

\* The job options are those of the preview the invocation printed, and of
\* the job handle it received.
OptionsArrived(p) ==
  /\ (pc[p] = "done" /\ Previewed(p)) => LastOut(p)[2].options = opts[p]
  /\ handle[p].state = "submitted" => handle[p].job.options = opts[p]

\* C13: the experiments passed on to the translation or the submission are
\* what jobopts.GetExperiments returned, followed by the one entry
\* "min_cpu_platform=" and the value of the flag when the flag is set, and
\* nothing else when it is not.
C13_MinCPUPlatformLast ==
  \A p \in Procs :
    PassedOn(p) =>
      LET X == opts[p].Experiments
      IN  /\ OptionsArrived(p)
          /\ IF minCPUPlatform # ""
               THEN /\ Len(X) = Len(experiments) + 1
                    /\ SubSeq(X, 1, Len(experiments)) = experiments
                    /\ X[Len(X)] = "min_cpu_platform=" \o minCPUPlatform
               ELSE X = experiments

\* The job options were passed on with the flag set and two experiments
\* before it.
C13_Witness ==
  \E p \in Procs :
    /\ PassedOn(p)
    /\ minCPUPlatform = "v2"
    /\ Len(experiments) = 2
    /\ Len(opts[p].Experiments) = 3

\* C14: the temp location passed on to the translation or the submission is
\* the join of the staging location and "tmp" when no temp location was
\* given (the only case in which it is derived), and the temp location
\* given, unchanged, when one was.
C14_TempLocationDefault ==
  \A p \in Procs :
    PassedOn(p) =>
      /\ OptionsArrived(p)
      /\ tempLocation = "" => opts[p].TempLocation = GcsxJoin(stagingLocation, "tmp")
      /\ tempLocation # "" => opts[p].TempLocation = tempLocation

\* The job options were passed on with a derived temp location.
C14_Witness ==
  \E p \in Procs :
    /\ PassedOn(p)
    /\ pc[p] = "done"
    /\ tempLocation = ""
    /\ stagingLocation = "gs://other"
    /\ opts[p].TempLocation = "gs://other/tmp"

\* Whether a label string is a JSON text.
WellFormedJSON(s) ==
  s \in {"{\"team\":\"beam\"}", "{\"a\":\"1\",\"b\":\"2\"}", "{}", "null", "{\"n\":1}"}

\* Whether a label string is a JSON object all of whose values are strings,
\* or null.
StringObject(s) == s \in {"{\"team\":\"beam\"}", "{\"a\":\"1\",\"b\":\"2\"}", "{}", "null"}

\* The key/value pairs a JSON text has, the values as they are written.
PairsOf(s) ==
  CASE s = "{\"team\":\"beam\"}" -> {<<"team", "beam">>}
    [] s = "{\"a\":\"1\",\"b\":\"2\"}" -> {<<"a", "1">>, <<"b", "2">>}
    [] s = "{\"n\":1}" -> {<<"n", "1">>}
    [] OTHER -> {}

\* The calls that enable the hook, compile, name, translate and submit.
AfterLabels ==
  { "perf.EnableProfCaptureHook", "hooks.SerializeHooksToOptions", "p.Build",
    "graphx.Marshal", "atomic.AddInt32", "dataflowlib.Translate", "dataflowlib.Execute" }

\* The invocation has ended with the error of the labels, carrying the text
\* of the parse error, and has done nothing of what follows the labels.
FailedOnLabels(p) ==
  /\ pc[p] = "done"
  /\ calls[p] # << >>
  /\ LET c == calls[p][Len(calls[p])]
     IN  /\ c.fn = "json.Unmarshal"
         /\ Failed(c)
         /\ ret[p] = NewError("error reading --label flag as JSON: " \o c.err.msg)
  /\ \A fn \in AfterLabels : ~Called(p, fn)
  /\ out[p] = << >>

\* The invocation has passed the checks of the required flags and is beyond
\* the statements that read the labels.
BeyondLabels(p) ==
  /\ gcpProject # ""
  /\ stagingLocation # ""
  /\ pc[p] \notin {"idle", "C89"}

Registered(h) ==
  /\ ParseObject(h.dest).err.isNil
  /\ h.bucket = ParseObject(h.dest).bucket
  /\ h.prefix = ParseObject(h.dest).prefix

\* What the last invocation of the capture function did, when there is one.
CaptureContract ==
  captures > 0 =>
    LET c == lastCapture
    IN  /\ Registered(c.hook)
        /\ IF ~c.client.isNil
             THEN /\ c.writes = << >>
                  /\ c.ret = NewError("couldn't establish GCS client: " \o c.client.msg)
             ELSE /\ Len(c.writes) = 1
                  /\ c.writes[1].bucket = c.hook.bucket
                  /\ c.writes[1].object =
                       IF c.hook.prefix = "" THEN c.spec ELSE c.hook.prefix \o "/" \o c.spec
                  /\ (c.hook.prefix = "profiles/run42" /\ c.spec = "trace-1")
                       => c.writes[1].object = "profiles/run42/trace-1"
                  /\ c.ret = c.wrote

\* C16: an invocation of the capture function whose storage client cannot
\* be made returns the error of the storage client and writes no object;
\* any other writes exactly one object, to the registered bucket at the path
\* of the registered prefix joined with the stream identifier, and returns
\* what that write returned; and no invocation of the capture function
\* changes anything of an invocation of Execute, its result included.
C16_CaptureWritesOnce ==
  [][ /\ CaptureContract'
      /\ captures' # captures
           => UNCHANGED <<flagVars, sharedVars, localVars, pc, cancelled, ret, calls, out,
                          runs, plans>> ]_vars

\* The storage client could not be made while an invocation of Execute was
\* in a blocking call.
C16_Witness ==
  /\ captures > 0
  /\ lastCapture.client = ErrNewClient
  /\ lastCapture.writes = << >>
  /\ \E p \in Procs : pc[p] \in InFlight

\* C17: of a destination that does not parse into bucket and prefix no
\* capture function is made: gcsRecorderHook panics, which ends the process,
\* so that every capture function there is, and every one that was invoked,
\* was made of a destination that parses, and after the panic no capture
\* function is made or invoked.
C17_UnparsableDestinationPanics ==
  /\ hook # NoHook => Registered(hook)
  /\ captures > 0 => Registered(lastCapture.hook)
  /\ (hookDest # "" /\ ~ParseObject(hookDest).err.isNil) => hook.dest # hookDest
  /\ panicked
       => /\ ~ParseObject(hookDest).err.isNil
          /\ ~ENABLED MakeHook
          /\ ~ENABLED (\E sp \in CaptureSpecs : Capture(sp))

\* gcsRecorderHook has panicked on a destination that does not parse.
C17_Witness ==
  /\ panicked
  /\ hookDest = "nowhere"
  /\ hook = NoHook

\* The invocation has passed the checks of the required flags and the
\* reading of the labels, and the statement that enables the hook.
PassedEnabling(p) ==
  /\ pc[p] \notin {"idle", "C89", "L98"}
  /\ gcpProject # ""
  /\ stagingLocation # ""
  /\ labels = "" \/ StringObject(labels)

\* The invocation has enabled the hook if and only if it has passed the
\* checks and the labels and the profiling destination is not empty; it has
\* done so once, and before it serialized the hooks.
EnabledWhenConfigured(p) ==
  LET e == CallsOf(p, "perf.EnableProfCaptureHook")
  IN  /\ Cardinality(e) <= 1
      /\ e # {} <=> (PassedEnabling(p) /\ cpuProfiling # "")
      /\ \A i \in e : \A j \in CallsOf(p, "hooks.SerializeHooksToOptions") : i < j

\* The step is the one of lines 98-100 of invocation p.
AtEnabling(p) == pc[p] = "L98" /\ pc'[p] = "L112"

\* C18: an invocation enables the hook gcs_profile_writer with the profiling
\* destination if and only if it has passed the checks of the flags and the
\* labels and the destination is not empty, and before it serializes the
\* hooks; enabling overwrites the destination a former invocation enabled
\* the hook with; and nothing else changes the destination: the hook stays
\* enabled when a later step of the invocation fails.
C18_HookEnabledWhenConfigured ==
  [][ /\ \A p \in Procs :
           /\ EnabledWhenConfigured(p)'
           /\ AtEnabling(p)
                => hookDest' = IF cpuProfiling # "" THEN cpuProfiling ELSE hookDest
      /\ hookDest' # hookDest => \E p \in Procs : AtEnabling(p)
      /\ hookDest # "" => hookDest' # "" ]_vars

\* An invocation has overwritten the destination a former one had enabled
\* and exported, and has then failed.
C18_Witness ==
  \E p \in Procs :
    /\ pc[p] = "done"
    /\ ~ret[p].isNil
    /\ Called(p, "perf.EnableProfCaptureHook")
    /\ hookDest = cpuProfiling
    /\ exported \notin {"", hookDest}

\* The step is the one of line 149 of invocation p: graphx.Marshal has
\* returned without error.
AtNaming(p) == pc[p] = "C144" /\ pc'[p] = "L151"

\* The invocation has incremented the counter once if graphx.Marshal has
\* succeeded, and not at all otherwise.
IncrementedOncePastCompilation(p) ==
  /\ Cardinality(CallsOf(p, "atomic.AddInt32")) <= 1
  /\ Called(p, "atomic.AddInt32") <=> AllSucceeded(p, "graphx.Marshal")

\* The two names of the plan are made of the same id, the one the plan got.
NamesCarryPlanId(k) ==
  LET i == ToString(plans[k].id)
  IN  /\ \E t \in Times :
           plans[k].modelURL = stagingLocation \o "/model-" \o i \o "-" \o ToString(t)
      /\ \E t \in Times :
           plans[k].workerURL = stagingLocation \o "/worker-" \o i \o "-" \o ToString(t)

\* The counter changes in the naming step only, and every naming step
\* changes it.
OnlyNamingIncrements ==
  [][ /\ unique' # unique => \E p \in Procs : AtNaming(p)
      /\ \A p \in Procs : AtNaming(p) => unique' # unique ]_vars

\* C19 as the specification states it: every invocation increments the
\* counter once when it passes model compilation and not at all when it fails
\* earlier, the counter equals the number of invocations that have reached the
\* naming step, and the two names of a plan carry the same id.
C19_CounterCountsInvocations ==
  /\ \A p \in Procs : IncrementedOncePastCompilation(p)
  /\ \A k \in Complete : NamesCarryPlanId(k)
  /\ unique = Len(plans)

\* C19, amended: every invocation increments the counter once when it passes
\* model compilation and not at all when it fails earlier, no other step
\* changes the counter, the counter equals the number of invocations that
\* have reached the naming step modulo 2^CounterBits, as a signed integer of
\* that width, and the two names of a plan carry the same id.
C19_CounterCountsModuloWidth ==
  /\ [](\A p \in Procs : IncrementedOncePastCompilation(p))
  /\ [](\A k \in Complete : NamesCarryPlanId(k))
  /\ [](/\ (unique - Len(plans)) % (2 ^ CounterBits) = 0
        /\ unique >= 0 - 2 ^ (CounterBits - 1)
        /\ unique < 2 ^ (CounterBits - 1))
  /\ OnlyNamingIncrements

\* Two invocations have reached the naming step at once and a third has
\* failed in model compilation, leaving the counter as it was.
C19_Witness ==
  /\ Len(plans) = 2
  /\ Complete = {1, 2}
  /\ plans[1].by # plans[2].by
  /\ \E p \in Procs :
       /\ pc[p] = "done"
       /\ \E i \in CallsOf(p, "graphx.Marshal") : Failed(calls[p][i])
       /\ ~Called(p, "atomic.AddInt32")

\* The step begins the call of jobopts.GetContainerImage of invocation p.
AtResolving(p) == pc[p] = "idle" /\ pc'[p] = "C89"

\* C20 as the specification states it: an invocation calls the image
\* resolver only when the process-wide image is empty and the project and the
\* staging location are set, and stores what the resolver returned; once the
\* process-wide image is not empty it does not change any more, no invocation
\* that begins then calls the resolver, and every invocation that compiles
\* then compiles with that image.
C20_ResolvedImageSticky ==
  [][ /\ \A p \in Procs :
           /\ AtResolving(p) => image = "" /\ gcpProject # "" /\ stagingLocation # ""
           /\ (image # "" /\ pc[p] = "idle") => pc'[p] # "C89"
           /\ (pc[p] = "C89" /\ pc'[p] # "C89") => image' \in ResolvedImages
           /\ (AtNaming(p) /\ image # "") => model'[p].image = image
      /\ image # "" => image' = image ]_vars

====
